---------------------------- MODULE Spec2Model ----------------------------
(***************************************************************************)
(* A model of the optimisation driver of src/src/caffe/solver.cpp:         *)
(* Solver::Solve with its snapshot / test cadences, the smoothed-loss      *)
(* window, gradient accumulation, Snapshot / Restore of the solver state   *)
(* and the learning-rate / weight-decay preamble and transform of the five *)
(* update rules (SGD, Nesterov, AdaGrad, AdaDelta, RMSProp).               *)
(*                                                                         *)
(* Dtype values are exact rationals <<n, d>> (d > 0, lowest terms); the    *)
(* square root of caffe_powx(x, 0.5) is rounded down to 1/SqrtScale.       *)
(***************************************************************************)
EXTENDS Integers, Sequences, FiniteSets, TLC

(***************************************************************************)
(* Bounds of the model.                                                    *)
(***************************************************************************)
\* largest max_iter of the control-flow configurations
MaxIter == 3
\* largest snapshot / test_interval cadence
MaxCadence == 2
\* largest average_loss window
MaxWindow == 2
\* largest update_interval
MaxInterval == 2
\* precision of the rounded square root
SqrtScale == 4

(***************************************************************************)
(* Dtype arithmetic: exact rationals.                                      *)
(***************************************************************************)
Abs(x) == IF x < 0 THEN -x ELSE x

RECURSIVE Gcd(_, _)
Gcd(a, b) == IF b = 0 THEN a ELSE Gcd(b, a % b)

Norm(n, d) ==
  LET s == IF d < 0 THEN -1 ELSE 1
      g == Gcd(Abs(n), Abs(d))
  IN  <<(s * n) \div g, (s * d) \div g>>

Q(n) == <<n, 1>>
Frac(n, d) == Norm(n, d)
\* common factors are cancelled before the products are formed
QAdd(x, y) ==
  LET g == Gcd(x[2], y[2])
  IN  Norm(x[1] * (y[2] \div g) + y[1] * (x[2] \div g), (x[2] \div g) * y[2])
QSub(x, y) ==
  LET g == Gcd(x[2], y[2])
  IN  Norm(x[1] * (y[2] \div g) - y[1] * (x[2] \div g), (x[2] \div g) * y[2])
QMul(x, y) ==
  LET g1 == Gcd(Abs(x[1]), y[2])
      g2 == Gcd(Abs(y[1]), x[2])
  IN  Norm((x[1] \div g1) * (y[1] \div g2), (x[2] \div g2) * (y[2] \div g1))
\* the divisor is never zero where the model divides
QDiv(x, y) == QMul(x, Norm(y[2], y[1]))
QNeg(x) == <<-x[1], x[2]>>
QSign(x) == IF x[1] > 0 THEN Q(1) ELSE IF x[1] < 0 THEN Q(-1) ELSE Q(0)
QIsZero(x) == x[1] = 0

RECURSIVE QPow(_, _)
QPow(x, e) == IF e = 0 THEN Q(1) ELSE QMul(x, QPow(x, e - 1))

RECURSIVE ISqrtFrom(_, _)
ISqrtFrom(n, r) == IF (r + 1) * (r + 1) > n THEN r ELSE ISqrtFrom(n, r + 1)

\* caffe_powx(x, 0.5) of a non-negative value
QSqrt(x) ==
  Norm(ISqrtFrom((x[1] * SqrtScale * SqrtScale) \div x[2], 0), SqrtScale)

\* elementwise kernels over blobs (sequences of Dtype)
Zeros(n) == [i \in 1..n |-> Q(0)]
VAxpy(a, X, Y) == [i \in DOMAIN Y |-> QAdd(QMul(a, X[i]), Y[i])]
VAxpby(a, X, b, Y) == [i \in DOMAIN Y |-> QAdd(QMul(a, X[i]), QMul(b, Y[i]))]
VSign(X) == [i \in DOMAIN X |-> QSign(X[i])]
VSquare(X) == [i \in DOMAIN X |-> QMul(X[i], X[i])]
VSqrt(X) == [i \in DOMAIN X |-> QSqrt(X[i])]
VAdd(X, Y) == [i \in DOMAIN X |-> QAdd(X[i], Y[i])]
VAddScalar(a, X) == [i \in DOMAIN X |-> QAdd(X[i], a)]
VDiv(X, Y) == [i \in DOMAIN X |-> QDiv(X[i], Y[i])]
VMul(X, Y) == [i \in DOMAIN X |-> QMul(X[i], Y[i])]
VSet(a, X) == [i \in DOMAIN X |-> a]


(***************************************************************************)
(* State.                                                                  *)
(***************************************************************************)
VARIABLES
  param,        \* param_: the SolverParameter of the current solver
  menu,         \* the configurations of the solvers built one after another
  dataset,      \* the batches the training net's data layer can deliver
  pc,           \* position of the current solver inside Solve
  runs,         \* number of solvers constructed so far
  iter_,        \* Solver::iter_
  start_iter,   \* the local start_iter of Solve
  net_data,     \* net_->params()[i] data (the weights)
  net_diff,     \* net_->params()[i] diff (the gradients)
  acum_diff,    \* the net's gradient accumulation buffers
  history_,     \* SGDSolver::history_
  update_,      \* SGDSolver::update_
  temp_,        \* SGDSolver::temp_
  losses,       \* the local vector losses of Solve
  smoothed_loss,\* the local smoothed_loss of Solve
  raw,          \* the per-pass losses of this Solve call, in order
  fed,          \* the batches of each pass of this Solve call, in order
  phase,        \* Caffe::phase()
  accumulate,   \* Caffe::accumulate()
  test_data,    \* weights seen by each test net
  model_files,  \* written .caffemodel files, by name
  state_files,  \* written .solverstate files, by name
  taken,        \* per state file: the solver state when Snapshot ran
  restored,     \* the state file this Solve call resumed from, or NoFile
  used,         \* local_rate / local_decay of the last ComputeUpdateValue
  trace,        \* the operations of this Solve call, in order
  net_built,    \* net_ was constructed by InitTrainNet
  test_nets_,   \* Solver::test_nets_: the source of each test net built
  init_done,    \* Solver::Init returned
  report,       \* the scores reported by the last TestAll, in order
  written       \* the WriteProtoToBinaryFile calls made so far, in order

vars == <<param, menu, dataset, pc, runs, iter_, start_iter, net_data,
          net_diff, acum_diff, history_, update_, temp_, losses,
          smoothed_loss, raw, fed, phase, accumulate, test_data,
          model_files, state_files, taken, restored, used, trace,
          net_built, test_nets_, init_done, report, written>>

NoFile == <<>>
EmptyMap == [x \in {} |-> 0]
Put(f, x, v) == [y \in (DOMAIN f) \cup {x} |-> IF y = x THEN v ELSE f[y]]

SolverTypes == {"SGD", "Nesterov", "AdaGrad", "AdaDelta", "RMSProp"}

\* number of learnable parameters of the training net
NumParams(c) == Len(c.params_lr)
\* number of test net instances built by InitTestNets
NumTestNets(c) == Len(c.test_iter)

(***************************************************************************)
(* Configurations.  DefaultParam is the configuration every menu varies.   *)
(***************************************************************************)
DefaultParam ==
  [ has_net              |-> TRUE,
    has_net_param        |-> FALSE,
    has_train_net        |-> FALSE,
    has_train_net_param  |-> FALSE,
    test_net_param_size  |-> 0,
    test_net_size        |-> 0,
    test_state_size      |-> 0,
    solver_type          |-> "SGD",
    max_iter             |-> 2,
    snapshot             |-> 0,
    snapshot_after_train |-> TRUE,
    snapshot_diff        |-> FALSE,
    test_interval        |-> 0,
    test_initialization  |-> TRUE,
    test_iter            |-> <<>>,
    test_compute_loss    |-> FALSE,
    output_counts        |-> <<1>>,
    output_blob_indices  |-> <<2>>,
    blob_loss_weights    |-> <<Q(0), Q(1)>>,
    average_loss         |-> 1,
    has_update_interval  |-> FALSE,
    update_interval      |-> 1,
    display              |-> 0,
    lr_policy            |-> "fixed",
    base_lr              |-> Frac(1, 2),
    gamma                |-> Frac(1, 2),
    stepsize             |-> 2,
    power                |-> 1,
    momentum             |-> Frac(1, 2),
    weight_decay         |-> Q(0),
    regularization_type  |-> "L2",
    delta                |-> Q(1),
    rms_decay            |-> Frac(1, 2),
    params_lr            |-> <<Q(1), Q(2)>>,
    params_weight_decay  |-> <<Q(1), Q(0)>>,
    init_data            |-> <<<<Q(1)>>, <<Q(-2)>>>> ]

\* update_interval settings: absent (the default 1), or present with a value
IntervalSettings ==
  {<<FALSE, 1>>} \cup {<<TRUE, k>> : k \in 1..MaxInterval}

(***************************************************************************)
(* Solver::Init: the accumulation flag.                                    *)
(***************************************************************************)
SetAccumulate(c) == ~(~c.has_update_interval \/ c.update_interval = 1)

Bit(b) == IF b THEN 1 ELSE 0

\* InitTrainNet: num_train_nets
NumTrainNets(c) ==
  Bit(c.has_net) + Bit(c.has_net_param) + Bit(c.has_train_net)
    + Bit(c.has_train_net_param)

\* variant of InitTrainNetOk: only the lower bound is checked
InitTrainNetOkAtLeast(c) == NumTrainNets(c) >= 1

\* InitTrainNet: CHECK_GE(num_train_nets, 1) and CHECK_LE(num_train_nets, 1)
InitTrainNetOk(c) == NumTrainNets(c) >= 1 /\ NumTrainNets(c) <= 1

\* InitTestNets: num_generic_nets and num_test_nets
NumGenericNets(c) == Bit(c.has_net_param) + Bit(c.has_net)
NumDeclaredTestNets(c) == c.test_net_param_size + c.test_net_size

\* variant of TestIterOk: a surplus of test_iter entries is always accepted
TestIterOkAtLeast(c) == Len(c.test_iter) >= NumDeclaredTestNets(c)

\* InitTestNets: the test_iter count against the declared test nets
TestIterOk(c) ==
  IF NumGenericNets(c) # 0
  THEN Len(c.test_iter) >= NumDeclaredTestNets(c)
  ELSE Len(c.test_iter) = NumDeclaredTestNets(c)

\* InitTestNets: num_generic_net_instances
NumGenericNetInstances(c) == Len(c.test_iter) - NumDeclaredTestNets(c)

\* InitTestNets: test_state is absent or given once per test net instance
TestStateOk(c) ==
  c.test_state_size # 0 =>
    c.test_state_size = NumDeclaredTestNets(c) + NumGenericNetInstances(c)

\* InitTestNets: test nets need a positive test_interval
TestIntervalOk(c) == NumTestNets(c) > 0 => c.test_interval > 0

\* InitTestNets: num_test_net_instances, the size test_nets_ is given
NumTestNetInstances(c) == NumDeclaredTestNets(c) + NumGenericNetInstances(c)

\* variant of InitTestNetsOk: the test_iter count is not checked
InitTestNetsOkAnyCount(c) ==
  /\ NumGenericNets(c) <= 1
  /\ TestStateOk(c)
  /\ TestIntervalOk(c)

\* InitTestNets: all its checks, in order
InitTestNetsOk(c) ==
  /\ NumGenericNets(c) <= 1
  /\ TestIterOk(c)
  /\ TestStateOk(c)
  /\ TestIntervalOk(c)

\* Solver::Init returns: both scaffolding steps passed their checks
InitOk(c) == InitTrainNetOk(c) /\ InitTestNetsOk(c)

(***************************************************************************)
(* Solver::Solve: the cadence tests of the loop.                           *)
(***************************************************************************)
\* variant of LoopCond: the bound is inclusive
LoopCondInclusive(c, it) == it <= c.max_iter

LoopCond(c, it) == it < c.max_iter

\* variant of SnapshotDue: compares with 0, not with start_iter
SnapshotDueFromZero(c, it, st) ==
  c.snapshot # 0 /\ it > 0 /\ it % c.snapshot = 0

SnapshotDue(c, it, st) ==
  c.snapshot # 0 /\ it > st /\ it % c.snapshot = 0

\* variant of TestDue: test_initialization is not consulted
TestDueAlways(c, it) == c.test_interval # 0 /\ it % c.test_interval = 0

TestDue(c, it) ==
  c.test_interval # 0 /\ it % c.test_interval = 0
    /\ (it > 0 \/ c.test_initialization)

\* variant of FinalSnapshotDue: only with a snapshot cadence
FinalSnapshotDueCadence(c) == c.snapshot # 0 /\ c.snapshot_after_train

FinalSnapshotDue(c) == c.snapshot_after_train

\* variant of FinalTestDue: test_initialization is consulted at iteration 0
FinalTestDueFlagged(c, it) ==
  c.test_interval # 0 /\ it % c.test_interval = 0
    /\ (it > 0 \/ c.test_initialization)

\* lines 270-272: the evaluation after the loop
FinalTestDue(c, it) == c.test_interval # 0 /\ it % c.test_interval = 0

\* number of ForwardBackward calls of one pass
NumPasses(c, acc) == IF ~acc THEN 1 ELSE (c.update_interval - 1) + 1

\* variant of LossDivisor: the summed loss is not divided
LossDivisorOne(c, acc) == 1

\* the divisor applied to the summed loss of one pass
LossDivisor(c, acc) == IF ~acc THEN 1 ELSE c.update_interval

(***************************************************************************)
(* The training net (external): a batch b yields a loss and a gradient.    *)
(***************************************************************************)
BatchLoss(b) == Q(b)
BatchGrad(b, n) == [p \in 1..n |-> <<Q(IF p % 2 = 1 THEN b ELSE -b)>>]

BlobsAdd(X, Y) == [p \in DOMAIN X |-> VAdd(X[p], Y[p])]
ZeroBlobs(n) == [p \in 1..n |-> Zeros(1)]

\* Net::AccumulateDiff: add the fresh gradients to the accumulation buffers
AccumulateDiff(acum, diff) == BlobsAdd(acum, diff)
\* Net::UpdateDiff: add the accumulated gradients to the fresh ones
UpdateDiff(acum, diff) == BlobsAdd(acum, diff)

RECURSIVE SumLoss(_)
SumLoss(bs) ==
  IF Len(bs) = 0 THEN Q(0)
  ELSE QAdd(BatchLoss(bs[Len(bs)]), SumLoss(SubSeq(bs, 1, Len(bs) - 1)))

RECURSIVE AccumAll(_, _, _)
\* the accumulation buffers after the accumulate-only passes bs
AccumAll(acum, bs, n) ==
  IF Len(bs) = 0 THEN acum
  ELSE AccumulateDiff(AccumAll(acum, SubSeq(bs, 1, Len(bs) - 1), n),
                      BatchGrad(bs[Len(bs)], n))

\* the loss of one pass over the batches bs
PassLoss(c, acc, bs) == QDiv(SumLoss(bs), Q(LossDivisor(c, acc)))

\* the gradient left in the net by one pass over the batches bs
PassDiff(c, acc, acum, bs) ==
  LET n == NumParams(c)
      last == BatchGrad(bs[Len(bs)], n)
  IN  IF ~acc THEN last
      ELSE UpdateDiff(AccumAll(acum, SubSeq(bs, 1, Len(bs) - 1), n), last)

(***************************************************************************)
(* Solver::Solve: the smoothed-loss window.                                *)
(***************************************************************************)
\* variant of LossIdx: the slot is computed from the iteration alone
LossIdxFromZero(c, it, st) == it % c.average_loss

LossIdx(c, it, st) == (it - st) % c.average_loss

SmoothLosses(c, ls, loss, it, st) ==
  IF Len(ls) < c.average_loss THEN Append(ls, loss)
  ELSE [ls EXCEPT ![LossIdx(c, it, st) + 1] = loss]

SmoothValue(c, ls, sm, loss, it, st) ==
  IF Len(ls) < c.average_loss
  THEN LET size == Len(ls) + 1
       IN  QDiv(QAdd(QMul(sm, Q(size - 1)), loss), Q(size))
  ELSE QAdd(sm, QDiv(QSub(loss, ls[LossIdx(c, it, st) + 1]),
                     Q(c.average_loss)))

(***************************************************************************)
(* SGDSolver::GetLearningRate.                                             *)
(***************************************************************************)
LrPolicies == {"fixed", "step", "exp", "inv"}

\* variant of LrPolicyKnown: the final else branch does not stop the run
LrPolicyKnownAny(c) == TRUE

LrPolicyKnown(c) == c.lr_policy \in LrPolicies

\* variant of GetLearningRate: the step counter is one iteration ahead
GetLearningRateAhead(c, it) ==
  CASE c.lr_policy = "fixed" -> c.base_lr
    [] c.lr_policy = "step" ->
         QMul(c.base_lr, QPow(c.gamma, (it + 1) \div c.stepsize))
    [] c.lr_policy = "exp" -> QMul(c.base_lr, QPow(c.gamma, it))
    [] c.lr_policy = "inv" ->
         QDiv(c.base_lr, QPow(QAdd(Q(1), QMul(c.gamma, Q(it))), c.power))
    [] OTHER -> Q(0)

GetLearningRate(c, it) ==
  CASE c.lr_policy = "fixed" -> c.base_lr
    [] c.lr_policy = "step" ->
         QMul(c.base_lr, QPow(c.gamma, it \div c.stepsize))
    [] c.lr_policy = "exp" -> QMul(c.base_lr, QPow(c.gamma, it))
    [] c.lr_policy = "inv" ->
         QDiv(c.base_lr, QPow(QAdd(Q(1), QMul(c.gamma, Q(it))), c.power))
    [] OTHER -> Q(0)

(***************************************************************************)
(* ComputeUpdateValue: the preamble shared by the five rules.              *)
(***************************************************************************)
\* the rules whose preamble scales by update_interval
ScalesByInterval(c) == c.solver_type \in {"SGD", "Nesterov"}

RuleRate(c, it) ==
  IF ScalesByInterval(c)
  THEN QDiv(GetLearningRate(c, it), Q(c.update_interval))
  ELSE GetLearningRate(c, it)

RuleDecay(c) ==
  IF ScalesByInterval(c)
  THEN QMul(c.weight_decay, Q(c.update_interval))
  ELSE c.weight_decay

LocalRate(c, it, p) == QMul(RuleRate(c, it), c.params_lr[p])
LocalDecay(c, p) == QMul(RuleDecay(c), c.params_weight_decay[p])

RegularizationKnown(c) == c.regularization_type \in {"L2", "L1"}

\* the regularization branch is entered only for a non-zero local_decay
RegularizeOk(c, p) == QIsZero(LocalDecay(c, p)) \/ RegularizationKnown(c)

\* the gradient after the weight-decay term was added
RegularizedDiff(c, p, data, diff) ==
  IF QIsZero(LocalDecay(c, p)) THEN diff
  ELSE IF c.regularization_type = "L2"
       THEN VAxpy(LocalDecay(c, p), data, diff)
       ELSE VAxpy(LocalDecay(c, p), VSign(data), diff)

\* temp_ after the weight-decay term was added
RegularizedTemp(c, p, data, tmp) ==
  IF ~QIsZero(LocalDecay(c, p)) /\ c.regularization_type = "L1"
  THEN VSign(data) ELSE tmp

(***************************************************************************)
(* The per-parameter transform of each rule.  b is the record of the       *)
(* parameter's buffers: data, diff, h (history_[p]), h2 (history_[n + p],  *)
(* AdaDelta only), upd (update_[p]), tmp (temp_[p]).                       *)
(***************************************************************************)
\* variant of SGDStep: the previous history is dropped
SGDStepNoMomentum(c, it, p, b) ==
  LET g == RegularizedDiff(c, p, b.data, b.diff)
      h == VAxpby(LocalRate(c, it, p), g, Q(0), b.h)
  IN  [b EXCEPT !.h = h, !.diff = h,
                !.tmp = RegularizedTemp(c, p, b.data, b.tmp)]

SGDStep(c, it, p, b) ==
  LET g == RegularizedDiff(c, p, b.data, b.diff)
      h == VAxpby(LocalRate(c, it, p), g, c.momentum, b.h)
  IN  [b EXCEPT !.h = h, !.diff = h,
                !.tmp = RegularizedTemp(c, p, b.data, b.tmp)]

NesterovStep(c, it, p, b) ==
  LET saved == b.h
      g == RegularizedDiff(c, p, b.data, b.diff)
      h == VAxpby(LocalRate(c, it, p), g, c.momentum, b.h)
      u == VAxpby(QAdd(Q(1), c.momentum), h, QNeg(c.momentum), saved)
  IN  [b EXCEPT !.h = h, !.upd = u, !.diff = u,
                !.tmp = RegularizedTemp(c, p, b.data, b.tmp)]

AdaGradStep(c, it, p, b) ==
  LET g == RegularizedDiff(c, p, b.data, b.diff)
      h == VAdd(VSquare(g), b.h)
      u == VDiv(g, VAddScalar(c.delta, VSqrt(h)))
  IN  [b EXCEPT !.h = h, !.upd = u,
                !.diff = VAxpby(LocalRate(c, it, p), u, Q(0), g),
                !.tmp = RegularizedTemp(c, p, b.data, b.tmp)]

AdaDeltaStep(c, it, p, b) ==
  LET g == RegularizedDiff(c, p, b.data, b.diff)
      h == VAxpby(QSub(Q(1), c.momentum), VSquare(g), c.momentum, b.h)
      d == VSet(c.delta, b.tmp)
      ratio == VSqrt(VDiv(VAdd(d, b.h2), VAdd(d, h)))
      step == VMul(g, ratio)
      sq == VSquare(step)
      h2 == VAxpby(QSub(Q(1), c.momentum), sq, c.momentum, b.h2)
      scaled == VAxpby(LocalRate(c, it, p), step, Q(0), VAdd(d, h))
  IN  [b EXCEPT !.h = h, !.h2 = h2, !.upd = sq, !.tmp = scaled,
                !.diff = scaled]

RMSpropStep(c, it, p, b) ==
  LET g == RegularizedDiff(c, p, b.data, b.diff)
      h == VAxpby(QSub(Q(1), c.rms_decay), VSquare(g), c.rms_decay, b.h)
      u == VDiv(g, VAddScalar(c.delta, VSqrt(h)))
  IN  [b EXCEPT !.h = h, !.upd = u,
                !.diff = VAxpby(LocalRate(c, it, p), u, Q(0), g),
                !.tmp = RegularizedTemp(c, p, b.data, b.tmp)]

RuleStep(c, it, p, b) ==
  CASE c.solver_type = "SGD" -> SGDStep(c, it, p, b)
    [] c.solver_type = "Nesterov" -> NesterovStep(c, it, p, b)
    [] c.solver_type = "AdaGrad" -> AdaGradStep(c, it, p, b)
    [] c.solver_type = "AdaDelta" -> AdaDeltaStep(c, it, p, b)
    [] c.solver_type = "RMSProp" -> RMSpropStep(c, it, p, b)

\* ComputeUpdateValue ends in LOG(FATAL) for an unknown policy or
\* regularization type
ComputeUpdateValueOk(c) ==
  /\ LrPolicyKnown(c)
  /\ \A p \in 1..NumParams(c) : RegularizeOk(c, p)

(***************************************************************************)
(* PreSolve: the buffers each rule allocates.                              *)
(***************************************************************************)
\* AdaDelta keeps two history blobs per parameter, the others one
HistorySize(c) ==
  IF c.solver_type = "AdaDelta" THEN 2 * NumParams(c) ELSE NumParams(c)

PreSolveHistory(c) == ZeroBlobs(HistorySize(c))

\* AdaDeltaSolver::ComputeUpdateValue: update_history_offset
UpdateHistoryOffset(c) == NumParams(c)

(***************************************************************************)
(* Snapshot / Restore: file names and serialized states.                   *)
(***************************************************************************)
\* snapshot_prefix + "_iter_<N>" + ".caffemodel"
ModelFileName(it) == <<"prefix", "_iter_", it, ".caffemodel">>
StateFileName(it) == ModelFileName(it) \o <<".solverstate">>

\* Blob::ToProto / FromProto (external)
ToProto(blob) == [data |-> blob]
FromProto(proto) == proto.data

\* Net::ToProto: the weights, and the gradients when snapshot_diff is set
NetToProto(c, data, diff) ==
  [blobs |-> [p \in DOMAIN data |-> ToProto(data[p])],
   diffs |-> IF c.snapshot_diff
             THEN [p \in DOMAIN diff |-> ToProto(diff[p])] ELSE <<>>]

\* Net::CopyTrainedLayersFrom: the weights only
CopyTrainedLayersFrom(net_param) ==
  [p \in DOMAIN net_param.blobs |-> FromProto(net_param.blobs[p])]

\* variant of SnapshotSolverState: the loop stops one history blob early
SnapshotSolverStateShort(h) == [i \in 1..(Len(h) - 1) |-> ToProto(h[i])]

\* SGDSolver::SnapshotSolverState
SnapshotSolverState(h) == [i \in 1..Len(h) |-> ToProto(h[i])]

\* Solver::Snapshot: the SolverState written
SolverStateOf(it, h) ==
  [iter |-> it, learned_net |-> ModelFileName(it),
   history |-> SnapshotSolverState(h)]

\* variant of SnapshotWrites: the state file is written first
SnapshotWritesStateFirst(c, it, data, diff, h) ==
  << [name |-> StateFileName(it), content |-> SolverStateOf(it, h)],
     [name |-> ModelFileName(it), content |-> NetToProto(c, data, diff)] >>

\* Solver::Snapshot: its two WriteProtoToBinaryFile calls, in order
SnapshotWrites(c, it, data, diff, h) ==
  << [name |-> ModelFileName(it), content |-> NetToProto(c, data, diff)],
     [name |-> StateFileName(it), content |-> SolverStateOf(it, h)] >>

\* variant of RestoreSolverStateOk: surplus stored blobs are tolerated
RestoreSolverStateAtLeast(state, h) == Len(state.history) >= Len(h)

\* SGDSolver::RestoreSolverState: CHECK_EQ(state.history_size(), history_.size())
RestoreSolverStateOk(state, h) == Len(state.history) = Len(h)

\* variant of RestoreSolverState: the stored history is not loaded
RestoreSolverStateFresh(state, h) == h

RestoreSolverState(state, h) == [i \in 1..Len(h) |-> FromProto(state.history[i])]

(***************************************************************************)
(* The operations recorded in trace.                                       *)
(***************************************************************************)
Ev(e, it, id, ph) == [ev |-> e, it |-> it, id |-> id, phase |-> ph]

RECURSIVE Repeat(_, _)
Repeat(x, n) == IF n <= 0 THEN <<>> ELSE <<x>> \o Repeat(x, n - 1)

\* Solver::Test: set the phase to TEST, share the weights, run test_iter
\* forward passes
TestEvents(c, it, id) ==
  <<Ev("Test", it, id, "TEST")>>
    \o Repeat(Ev("Forward", it, id, "TEST"), c.test_iter[id])

RECURSIVE TestAllFrom(_, _, _)
\* Solver::TestAll: Test(id) for each test net, in index order
TestAllFrom(c, it, id) ==
  IF id > NumTestNets(c) THEN <<>>
  ELSE TestEvents(c, it, id) \o TestAllFrom(c, it, id + 1)

TestAllEvents(c, it) ==
  <<Ev("TestAll", it, 0, "TRAIN")>> \o TestAllFrom(c, it, 1)

(***************************************************************************)
(* Solver::Test, lines 305-340: the scores and their report.               *)
(***************************************************************************)
RECURSIVE ScoreOutputIdsFrom(_, _)
\* test_score_output_id: the output blob of each score, outputs from j on
ScoreOutputIdsFrom(counts, j) ==
  IF j > Len(counts) THEN <<>>
  ELSE Repeat(j, counts[j]) \o ScoreOutputIdsFrom(counts, j + 1)

ScoreOutputIds(c) == ScoreOutputIdsFrom(c.output_counts, 1)

\* test_score.size(): scores exist once a forward pass has run
NumScores(c, id) == IF c.test_iter[id] <= 0 THEN 0 ELSE Len(ScoreOutputIds(c))

\* line 331: the position in output_blob_indices() the loss weight of score
\* i is looked up at
LossWeightPosition(i, ids) == i

\* what a read past the end of a vector can yield: some value, or an abort
JunkReads ==
  {[abort |-> FALSE, value |-> Q(0)], [abort |-> FALSE, value |-> Q(7)],
   [abort |-> TRUE, value |-> Q(0)]}

\* lines 327-339: the lines Test reports for test net id
TestReport(c, id, junk) ==
  LET ids == ScoreOutputIds(c)
  IN  [i \in 1..NumScores(c, id) |->
         LET pos == LossWeightPosition(i, ids)
         IN  [id |-> id, score |-> i, output |-> ids[i],
              name |-> c.output_blob_indices[ids[i]],
              position |-> pos,
              weight |-> IF pos \in DOMAIN c.output_blob_indices
                         THEN c.blob_loss_weights[c.output_blob_indices[pos]]
                         ELSE junk.value]]

RECURSIVE TestAllReportFrom(_, _, _)
TestAllReportFrom(c, id, junk) ==
  IF id > NumTestNets(c) THEN <<>>
  ELSE TestReport(c, id, junk) \o TestAllReportFrom(c, id + 1, junk)

TestAllReport(c, junk) == TestAllReportFrom(c, 1, junk)

\* some Test call reads past the end of the output list and the read aborts
TestAborts(c, junk) ==
  /\ junk.abort
  /\ \E id \in 1..NumTestNets(c) : \E i \in 1..NumScores(c, id) :
       LossWeightPosition(i, ScoreOutputIds(c))
         \notin DOMAIN c.output_blob_indices

\* variant of ShareTrainedLayersWith: the sharing goes the other way
ShareTrainedLayersReversed(train, tests) ==
  [train |-> IF tests = <<>> THEN train ELSE tests[1], tests |-> tests]

\* Solver::Test, lines 291-292: every test net shares the layers of the
\* training net; the training net's weights stay as they are
ShareTrainedLayersWith(train, tests) ==
  [train |-> train, tests |-> [i \in DOMAIN tests |-> train]]

\* a test net's weights as its own fillers set them at construction
TestInitData(c) == ZeroBlobs(NumParams(c))

RECURSIVE AccumEvents(_, _, _)
AccumEvents(it, ph, n) ==
  IF n <= 0 THEN <<>>
  ELSE <<Ev("ForwardBackward", it, 0, ph), Ev("AccumulateDiff", it, 0, ph)>>
         \o AccumEvents(it, ph, n - 1)

\* the net operations of one training step
TrainEvents(c, acc, it, ph) ==
  IF ~acc THEN <<Ev("ForwardBackward", it, 0, ph)>>
  ELSE AccumEvents(it, ph, c.update_interval - 1)
         \o <<Ev("ForwardBackward", it, 0, ph), Ev("UpdateDiff", it, 0, ph)>>

\* Net::Update: add the update to the weights
NetUpdateData(data, diff) == BlobsAdd(data, diff)

(***************************************************************************)
(* Construction (Solver::Init) of a solver from configuration c.           *)
(***************************************************************************)
\* InitTestNets, lines 123-164: the source of each test net instance, in
\* the order of test_net_id
TestSources(c) ==
  LET remaining == Len(c.test_iter) - NumDeclaredTestNets(c)
  IN  Repeat("test_net_param", c.test_net_param_size)
        \o Repeat("test_net", c.test_net_size)
        \o (IF c.has_net_param THEN Repeat("net_param", remaining) ELSE <<>>)
        \o (IF c.has_net THEN Repeat("net", remaining) ELSE <<>>)

\* what the constructor and Solve's entry leave in the solver's own state
Fresh(c) ==
  [ param |-> c,
    pc |-> IF InitOk(c) THEN "constructed" ELSE "fatal",
    net_built |-> InitTrainNetOk(c),
    test_nets_ |-> IF InitOk(c) THEN TestSources(c) ELSE <<>>,
    init_done |-> InitOk(c),
    net_data |-> c.init_data,
    blobs |-> ZeroBlobs(NumParams(c)),
    accumulate |-> SetAccumulate(c),
    test_data |-> [i \in 1..NumTestNets(c) |-> TestInitData(c)] ]

InitWith(plans, data) ==
  \E plan \in plans : LET c == plan[1] IN
    /\ param = Fresh(c).param
    /\ menu = plan
    /\ dataset = data
    /\ pc = Fresh(c).pc
    /\ runs = 1
    /\ iter_ = 0
    /\ start_iter = 0
    /\ net_data = Fresh(c).net_data
    /\ net_diff = Fresh(c).blobs
    /\ acum_diff = Fresh(c).blobs
    /\ history_ = <<>>
    /\ update_ = <<>>
    /\ temp_ = <<>>
    /\ losses = <<>>
    /\ smoothed_loss = Q(0)
    /\ raw = <<>>
    /\ fed = <<>>
    /\ phase = "TRAIN"
    /\ accumulate = Fresh(c).accumulate
    /\ test_data = Fresh(c).test_data
    /\ model_files = EmptyMap
    /\ state_files = EmptyMap
    /\ taken = EmptyMap
    /\ restored = NoFile
    /\ used = <<>>
    /\ trace = <<>>
    /\ net_built = Fresh(c).net_built
    /\ test_nets_ = Fresh(c).test_nets_
    /\ init_done = Fresh(c).init_done
    /\ report = <<>>
    /\ written = <<>>

\* the variables no step of Solve changes
env == <<param, menu, dataset, runs, accumulate, net_built, test_nets_,
         init_done>>
\* the written files
files == <<model_files, state_files, taken, written>>
\* the solver's buffers
buffers == <<history_, update_, temp_>>
\* the loss window
window == <<losses, smoothed_loss, raw, fed>>

\* the next solver of the menu is built; the files written so far stay
NewSolver ==
  /\ pc \in {"done", "fatal"}
  /\ runs < Len(menu)
  /\ runs' = runs + 1
  /\ LET c == menu[runs + 1] IN
       /\ param' = Fresh(c).param
       /\ pc' = Fresh(c).pc
       /\ net_data' = Fresh(c).net_data
       /\ net_diff' = Fresh(c).blobs
       /\ acum_diff' = Fresh(c).blobs
       /\ accumulate' = Fresh(c).accumulate
       /\ test_data' = Fresh(c).test_data
       /\ net_built' = Fresh(c).net_built
       /\ test_nets_' = Fresh(c).test_nets_
       /\ init_done' = Fresh(c).init_done
  /\ report' = <<>>
  /\ iter_' = 0
  /\ start_iter' = 0
  /\ history_' = <<>>
  /\ update_' = <<>>
  /\ temp_' = <<>>
  /\ losses' = <<>>
  /\ smoothed_loss' = Q(0)
  /\ raw' = <<>>
  /\ fed' = <<>>
  /\ restored' = NoFile
  /\ used' = <<>>
  /\ trace' = <<>>
  /\ UNCHANGED <<menu, dataset, phase, files>>

(***************************************************************************)
(* Solver::Solve, lines 169-191: PreSolve, the optional Restore, the       *)
(* average_loss check.                                                     *)
(***************************************************************************)
AverageLossOk(c) == c.average_loss >= 1

Solve(resume_file) ==
  /\ pc = "constructed"
  /\ LET c == param
         h0 == PreSolveHistory(c)
         resuming == resume_file # NoFile
         state == state_files[resume_file]
         restoreOk == ~resuming \/ RestoreSolverStateOk(state, h0)
         it == IF resuming THEN state.iter ELSE 0
     IN  /\ phase' = "TRAIN"
         /\ update_' = ZeroBlobs(NumParams(c))
         /\ temp_' = ZeroBlobs(NumParams(c))
         /\ net_data' = IF resuming
                        THEN CopyTrainedLayersFrom(model_files[state.learned_net])
                        ELSE net_data
         /\ iter_' = it
         /\ history_' = IF resuming /\ restoreOk
                        THEN RestoreSolverState(state, h0) ELSE h0
         /\ start_iter' = it
         /\ restored' = resume_file
         /\ losses' = <<>>
         /\ smoothed_loss' = Q(0)
         /\ raw' = <<>>
         /\ fed' = <<>>
         /\ trace' = <<>>
         /\ pc' = IF restoreOk /\ AverageLossOk(c) THEN "loop" ELSE "fatal"
  /\ UNCHANGED <<env, files, net_diff, acum_diff, test_data, used, report>>

SolveAny == \E f \in {NoFile} \cup DOMAIN state_files : Solve(f)

(***************************************************************************)
(* Solver::Snapshot: the model file, then the state file that names it.    *)
(***************************************************************************)
Snapshot ==
  /\ model_files' = Put(model_files, ModelFileName(iter_),
                        NetToProto(param, net_data, net_diff))
  /\ state_files' = Put(state_files, StateFileName(iter_),
                        SolverStateOf(iter_, history_))
  /\ taken' = Put(taken, StateFileName(iter_),
                  [iter |-> iter_, data |-> net_data, history |-> history_,
                   solver_type |-> param.solver_type])
  /\ written' = written \o SnapshotWrites(param, iter_, net_data, net_diff,
                                          history_)

\* lines 192-197: the loop test and the in-loop snapshot
LoopSnapshot ==
  /\ pc = "loop"
  /\ LoopCond(param, iter_)
  /\ IF SnapshotDue(param, iter_, start_iter)
     THEN /\ Snapshot
          /\ trace' = Append(trace, Ev("Snapshot", iter_, 0, phase))
     ELSE UNCHANGED <<files, trace>>
  /\ pc' = "test"
  /\ UNCHANGED <<env, buffers, window, iter_, start_iter, net_data, net_diff,
                 acum_diff, phase, test_data, restored, used, report>>

\* variant of PhaseAfterTest: the phase of the test is left in place
PhaseAfterTestKept(ph) == ph

\* Solver::Test, line 341: the phase a Test call leaves, ph being the phase
\* it ran its forward passes in
PhaseAfterTest(ph) == "TRAIN"

\* Solver::TestAll as called by Solve; junk is what a read past the end of
\* the output list yields
TestAll(junk) ==
  /\ trace' = trace \o TestAllEvents(param, iter_)
  /\ report' = TestAllReport(param, junk)
  /\ test_data' = ShareTrainedLayersWith(net_data, test_data).tests
  /\ net_data' = IF NumTestNets(param) > 0
                 THEN ShareTrainedLayersWith(net_data, test_data).train
                 ELSE net_data
  /\ phase' = IF NumTestNets(param) = 0 THEN phase
               ELSE IF TestAborts(param, junk) THEN "TEST"
               ELSE PhaseAfterTest("TEST")

\* lines 199-202: the in-loop evaluation
LoopTest ==
  /\ pc = "test"
  /\ IF TestDue(param, iter_)
     THEN \E junk \in JunkReads :
            /\ TestAll(junk)
            /\ pc' = IF TestAborts(param, junk) THEN "fatal" ELSE "train"
     ELSE /\ pc' = "train"
          /\ UNCHANGED <<trace, test_data, net_data, phase, report>>
  /\ UNCHANGED <<env, files, buffers, window, iter_, start_iter, net_diff,
                 acum_diff, restored, used>>

\* lines 204-228: the training step and the smoothed loss
TrainStep ==
  /\ pc = "train"
  /\ \E bs \in [1..NumPasses(param, accumulate) -> dataset] :
       LET loss == PassLoss(param, accumulate, bs)
       IN  /\ net_diff' = PassDiff(param, accumulate, acum_diff, bs)
           /\ acum_diff' = ZeroBlobs(NumParams(param))
           /\ losses' = SmoothLosses(param, losses, loss, iter_, start_iter)
           /\ smoothed_loss' = SmoothValue(param, losses, smoothed_loss, loss,
                                           iter_, start_iter)
           /\ raw' = Append(raw, loss)
           /\ fed' = Append(fed, bs)
  /\ trace' = trace \o TrainEvents(param, accumulate, iter_, phase)
  /\ pc' = "compute"
  /\ UNCHANGED <<env, files, buffers, iter_, start_iter, net_data, phase,
                 test_data, restored, used, report>>

\* line 253: ComputeUpdateValue of the solver's rule
ComputeUpdateValue ==
  /\ pc = "compute"
  /\ LET c == param
         n == NumParams(c)
         off == UpdateHistoryOffset(c)
         two == c.solver_type = "AdaDelta"
         res == [p \in 1..n |->
                   RuleStep(c, iter_, p,
                     [data |-> net_data[p], diff |-> net_diff[p],
                      h |-> history_[p],
                      h2 |-> IF two THEN history_[off + p] ELSE <<>>,
                      upd |-> update_[p], tmp |-> temp_[p]])]
     IN  IF ComputeUpdateValueOk(c)
         THEN /\ net_diff' = [p \in 1..n |-> res[p].diff]
              /\ history_' = [i \in 1..Len(history_) |->
                                IF i <= n THEN res[i].h ELSE res[i - off].h2]
              /\ update_' = [p \in 1..n |-> res[p].upd]
              /\ temp_' = [p \in 1..n |-> res[p].tmp]
              /\ used' = [p \in 1..n |->
                            [rate |-> LocalRate(c, iter_, p),
                             decay |-> LocalDecay(c, p)]]
              /\ trace' = Append(trace,
                                 Ev("ComputeUpdateValue", iter_, 0, phase))
              /\ pc' = "update"
         ELSE /\ pc' = "fatal"
              /\ UNCHANGED <<net_diff, buffers, used, trace>>
  /\ UNCHANGED <<env, files, window, iter_, start_iter, net_data, acum_diff,
                 phase, test_data, restored, report>>

\* variant of NetUpdate: a checkpoint labelled with the pass is written
\* after the update of the pass
NetUpdateThenSnapshot ==
  /\ pc = "update"
  /\ net_data' = NetUpdateData(net_data, net_diff)
  /\ iter_' = iter_ + 1
  /\ trace' = trace \o <<Ev("Update", iter_, 0, phase),
                          Ev("Snapshot", iter_, 0, phase)>>
  /\ model_files' = Put(model_files, ModelFileName(iter_),
                        NetToProto(param, net_data', net_diff))
  /\ state_files' = Put(state_files, StateFileName(iter_),
                        SolverStateOf(iter_, history_))
  /\ taken' = Put(taken, StateFileName(iter_),
                  [iter |-> iter_, data |-> net_data', history |-> history_,
                   solver_type |-> param.solver_type])
  /\ written' = written \o SnapshotWrites(param, iter_, net_data', net_diff,
                                          history_)
  /\ pc' = "loop"
  /\ UNCHANGED <<env, buffers, window, start_iter, net_diff, acum_diff,
                 phase, test_data, restored, used, report>>

\* lines 254-255: net_->Update() and ++iter_
NetUpdate ==
  /\ pc = "update"
  /\ net_data' = NetUpdateData(net_data, net_diff)
  /\ iter_' = iter_ + 1
  /\ trace' = Append(trace, Ev("Update", iter_, 0, phase))
  /\ pc' = "loop"
  /\ UNCHANGED <<env, files, buffers, window, start_iter, net_diff, acum_diff,
                 phase, test_data, restored, used, report>>

\* line 258: the snapshot after the loop
FinalSnapshot ==
  /\ pc = "loop"
  /\ ~LoopCond(param, iter_)
  /\ IF FinalSnapshotDue(param)
     THEN /\ Snapshot
          /\ trace' = Append(trace, Ev("FinalSnapshot", iter_, 0, phase))
     ELSE UNCHANGED <<files, trace>>
  /\ pc' = "final"
  /\ UNCHANGED <<env, buffers, window, iter_, start_iter, net_data, net_diff,
                 acum_diff, phase, test_data, restored, used, report>>

\* lines 265-273: the final display pass and the final evaluation
FinalTest ==
  /\ pc = "final"
  /\ IF FinalTestDue(param, iter_)
     THEN \E junk \in JunkReads :
            /\ TestAll(junk)
            /\ pc' = IF TestAborts(param, junk) THEN "fatal" ELSE "done"
     ELSE /\ pc' = "done"
          /\ UNCHANGED <<trace, test_data, net_data, phase, report>>
  /\ UNCHANGED <<env, files, buffers, window, iter_, start_iter, net_diff,
                 acum_diff, restored, used>>

Next ==
  \/ SolveAny
  \/ LoopSnapshot
  \/ LoopTest
  \/ TrainStep
  \/ ComputeUpdateValue
  \/ NetUpdate
  \/ FinalSnapshot
  \/ FinalTest
  \/ NewSolver

(***************************************************************************)
(* Specifications.  They share Next and differ in the configurations and   *)
(* the data they start from.  A menu is a first solver and a rerun.        *)
(***************************************************************************)
\* Spec: the cadences of the loop; the rerun may change max_iter
ControlBases ==
  { [DefaultParam EXCEPT !.snapshot = s, !.test_interval = t,
                         !.test_initialization = ti,
                         !.snapshot_after_train = sa,
                         !.test_iter = tn, !.max_iter = m] :
      s \in 0..MaxCadence, t \in 0..MaxCadence, ti \in BOOLEAN,
      sa \in BOOLEAN, tn \in {<<>>, <<1, 2>>}, m \in 0..MaxIter }

ControlMenus ==
  { <<c, [c EXCEPT !.max_iter = m]>> : c \in ControlBases, m \in 0..MaxIter }

Init == InitWith(ControlMenus, {1})

Spec == Init /\ [][Next]_vars

\* SpecLoss: the loss window over varying losses; a short run leaves a
\* snapshot and the rerun is long enough to wrap the window
LossMenus ==
  { << [DefaultParam EXCEPT !.average_loss = w, !.max_iter = 1],
       [DefaultParam EXCEPT !.average_loss = w, !.max_iter = MaxWindow + 2,
                            !.snapshot_after_train = FALSE] >> :
      w \in 1..MaxWindow }

InitLoss == InitWith(LossMenus, {1, 2, 4})

SpecLoss == InitLoss /\ [][Next]_vars

\* SpecAccum: gradient accumulation over varying batches
AccumMenus ==
  { << [DefaultParam EXCEPT !.has_update_interval = ks[1],
                            !.update_interval = ks[2], !.max_iter = 1],
       [DefaultParam EXCEPT !.has_update_interval = ks[1],
                            !.update_interval = ks[2], !.max_iter = 2,
                            !.snapshot_after_train = FALSE] >> :
      ks \in IntervalSettings }

InitAccum == InitWith(AccumMenus, {1, 2})

SpecAccum == InitAccum /\ [][Next]_vars

\* SpecRule: the five rules; the rerun may change the rule
RuleBases ==
  { [DefaultParam EXCEPT !.solver_type = ty, !.has_update_interval = ks[1],
                         !.update_interval = ks[2], !.snapshot = 1,
                         !.lr_policy = lp, !.weight_decay = wd] :
      ty \in SolverTypes, ks \in IntervalSettings, lp \in {"fixed", "step"},
      wd \in {Q(0), Frac(1, 2)} }

RuleMenus ==
  { <<c, [c EXCEPT !.solver_type = ty]>> : c \in RuleBases, ty \in SolverTypes }

InitRule == InitWith(RuleMenus, {1})

SpecRule == InitRule /\ [][Next]_vars

\* SpecFatal: known and unknown regularization_type / lr_policy strings
FatalBases ==
  { [DefaultParam EXCEPT !.solver_type = ty, !.regularization_type = reg,
                         !.lr_policy = lp, !.weight_decay = wd] :
      ty \in SolverTypes, reg \in {"L2", "L1", "L3"},
      lp \in {"fixed", "inv", "bogus"}, wd \in {Q(0), Frac(1, 2)} }

FatalMenus == { <<c, [c EXCEPT !.max_iter = 3]>> : c \in FatalBases }

InitFatal == InitWith(FatalMenus, {1})

SpecFatal == InitFatal /\ [][Next]_vars

\* SpecInit: the net sources and test net counts of the configuration; the
\* rerun may set average_loss to 0
InitBases ==
  { [DefaultParam EXCEPT !.has_net = hs[1], !.has_net_param = hs[2],
                         !.has_train_net = hs[3],
                         !.has_train_net_param = hs[4],
                         !.test_net_param_size = np, !.test_net_size = nf,
                         !.test_iter = ti, !.test_state_size = ts,
                         !.test_interval = tv, !.max_iter = 1] :
      hs \in [1..4 -> BOOLEAN], np \in 0..1, nf \in 0..1,
      ti \in {<<>>, <<1>>, <<1, 1>>, <<1, 1, 1>>}, ts \in {0, 2},
      tv \in 0..1 }

InitMenus ==
  { <<c, [c EXCEPT !.average_loss = a]>> : c \in InitBases, a \in 0..1 }

InitInit == InitWith(InitMenus, {1})

SpecInit == InitInit /\ [][Next]_vars

\* SpecStep: the step policy over six iterations
StepBases ==
  { [DefaultParam EXCEPT !.solver_type = ty, !.lr_policy = "step",
                         !.base_lr = b, !.gamma = g, !.stepsize = ss,
                         !.max_iter = 6, !.snapshot_after_train = FALSE] :
      ty \in SolverTypes, b \in {Frac(1, 10), Frac(1, 2)},
      g \in {Frac(1, 2), Frac(1, 3)}, ss \in 1..3 }

StepMenus == { <<c, [c EXCEPT !.snapshot_after_train = TRUE]>> : c \in StepBases }

InitStep == InitWith(StepMenus, {1})

SpecStep == InitStep /\ [][Next]_vars

\* SpecScore: test nets whose outputs have one or more elements
ScoreBases ==
  { [DefaultParam EXCEPT !.test_iter = ti, !.test_interval = 1,
                         !.test_initialization = tz, !.max_iter = 1,
                         !.output_counts = oc,
                         !.output_blob_indices = SubSeq(<<2, 3>>, 1, Len(oc)),
                         !.blob_loss_weights = <<Q(0), Q(1), Q(2)>>] :
      ti \in {<<1>>, <<2, 1>>}, tz \in BOOLEAN,
      oc \in {<<1>>, <<1, 1>>, <<2>>, <<2, 1>>, <<0, 1>>} }

ScoreMenus == { <<c, [c EXCEPT !.max_iter = 2]>> : c \in ScoreBases }

InitScore == InitWith(ScoreMenus, {1})

SpecScore == InitScore /\ [][Next]_vars

\* SpecResume: a run that snapshots at every iteration, then a rerun of the
\* same configuration up to a later max_iter
ResumeBases ==
  { [DefaultParam EXCEPT !.solver_type = ty, !.snapshot = 1,
                         !.lr_policy = lp, !.weight_decay = wd,
                         !.regularization_type = reg, !.max_iter = m] :
      ty \in SolverTypes, lp \in {"fixed", "step"},
      wd \in {Q(0), Frac(1, 2)}, reg \in {"L2", "L1"}, m \in 1..2 }

ResumeMenus ==
  { <<c, [c EXCEPT !.max_iter = m]>> : c \in ResumeBases, m \in 2..3 }

InitResume == InitWith(ResumeMenus, {1})

SpecResume == InitResume /\ [][Next]_vars

(***************************************************************************)
(* Properties.                                                             *)
(***************************************************************************)
\* Solve has just returned from its entry (lines 169-191) after a Restore
JustRestored ==
  restored # NoFile /\ trace = <<>> /\ pc \in {"loop", "fatal"}

\* the solver is inside or past the loop of Solve
InSolve ==
  pc \in {"loop", "test", "train", "compute", "update", "final", "done"}

\* C1: Snapshot followed by Restore into a fresh solver of the same update
\* rule is a round trip: Restore succeeds and the iteration counter, every
\* weight and every history blob (both groups of AdaDelta) equal the values
\* they had when Snapshot ran.
C1_RoundTrip ==
  (JustRestored /\ taken[restored].solver_type = param.solver_type)
    => /\ pc = "loop"
       /\ iter_ = taken[restored].iter
       /\ net_data = taken[restored].data
       /\ history_ = taken[restored].history

C1_Witness ==
  /\ JustRestored
  /\ pc = "loop"
  /\ param.solver_type = "AdaDelta"
  /\ taken[restored].solver_type = "AdaDelta"
  /\ iter_ > 0
  /\ net_data # param.init_data
  /\ Len(history_) = 2 * NumParams(param)
  /\ \A i \in 1..Len(history_) : history_[i] # Zeros(1)

\* the passes of this Solve call that are past their snapshot point
PastSnapshotPoint(i) ==
  i < iter_ \/ (i = iter_ /\ pc \in {"test", "train", "compute", "update"})

\* positions of the events named e of iteration i in trace
EventsAt(e, i) == {j \in DOMAIN trace : trace[j].ev = e /\ trace[j].it = i}

\* a snapshot of iteration i comes before everything else of that pass
SnapshotsFirst ==
  \A j \in DOMAIN trace :
    trace[j].ev = "Snapshot" => \A k \in 1..(j - 1) : trace[k].it < trace[j].it

\* C2 as stated: in every pass, fresh or resumed, a checkpoint is emitted
\* (before the training step) exactly when the snapshot cadence is non-zero
\* and the iteration is a positive multiple of it.
C2_AsStated ==
  InSolve =>
    /\ SnapshotsFirst
    /\ \A i \in start_iter..iter_ :
         PastSnapshotPoint(i) =>
           Cardinality(EventsAt("Snapshot", i)) =
             IF param.snapshot # 0 /\ i > 0 /\ i % param.snapshot = 0
             THEN 1 ELSE 0

\* C2 amended: in every pass a checkpoint is emitted (before the training
\* step) exactly when the snapshot cadence is non-zero and the iteration is
\* a multiple of it greater than the iteration the call started from (0 for
\* a fresh run, the restored iteration for a resumed one).
C2_SnapshotCadence ==
  InSolve =>
    /\ SnapshotsFirst
    /\ \A i \in start_iter..iter_ :
         PastSnapshotPoint(i) =>
           Cardinality(EventsAt("Snapshot", i)) =
             IF param.snapshot # 0 /\ i > start_iter /\ i % param.snapshot = 0
             THEN 1 ELSE 0

C2_Witness ==
  /\ pc = "done"
  /\ restored # NoFile
  /\ start_iter > 0
  /\ param.snapshot # 0
  /\ start_iter % param.snapshot = 0
  /\ EventsAt("Snapshot", start_iter) = {}
  /\ \E i \in (start_iter + 1)..iter_ : EventsAt("Snapshot", i) # {}

Max(a, b) == IF a >= b THEN a ELSE b

NumUpdates == Cardinality({j \in DOMAIN trace : trace[j].ev = "Update"})

C3_Counter ==
  /\ InSolve =>
       /\ start_iter = (IF restored = NoFile THEN 0 ELSE taken[restored].iter)
       /\ iter_ = start_iter + NumUpdates
       /\ \A i \in start_iter..(iter_ - 1) :
            Cardinality(EventsAt("Update", i)) = 1
       /\ iter_ <= Max(start_iter, param.max_iter)
  /\ pc \in {"test", "train", "compute", "update"} => iter_ < param.max_iter
  /\ pc \in {"final", "done"} =>
       /\ iter_ = Max(start_iter, param.max_iter)
       /\ NumUpdates = Max(0, param.max_iter - start_iter)

\* the distance of a Solve call from its end: passes left, then steps left
\* in the pass
PassesLeft == Max(0, param.max_iter - iter_)
StepsLeft ==
  CASE pc = "loop" -> 5 [] pc = "test" -> 4 [] pc = "train" -> 3
    [] pc = "compute" -> 2 [] pc = "update" -> 1 [] pc = "final" -> 1
    [] OTHER -> 0

\* C3: Solve terminates: the counter starts at 0 or at the restored
\* iteration, grows by exactly one per loop pass and never decreases, the
\* body runs max(0, max_iter - start_iter) times, the counter ends at
\* max(start_iter, max_iter), and every step of a Solve call brings it
\* closer to its end (or ends it in a fatal error).
C3_Terminates ==
  /\ []C3_Counter
  /\ [][(InSolve /\ pc # "done") =>
          /\ iter_' >= iter_
          /\ \/ pc' = "fatal"
             \/ PassesLeft' < PassesLeft
             \/ (PassesLeft' = PassesLeft /\ StepsLeft' < StepsLeft)]_vars

C3_Witness ==
  /\ pc = "done"
  /\ restored # NoFile
  /\ start_iter > param.max_iter
  /\ param.max_iter > 0
  /\ iter_ = start_iter
  /\ \A j \in DOMAIN trace : trace[j].ev # "Update"

\* the names and net ids of the events of a TestAll over n test nets
TestAllShape(n) == <<<<"TestAll", 0>>>> \o [id \in 1..n |-> <<"Test", id>>]

Shape(evs) == [j \in 1..Len(evs) |-> <<evs[j].ev, evs[j].id>>]

\* C4: in the pass at iteration i, TestAll runs -- every test net evaluated
\* exactly once, in index order, before the training step of the pass -- if
\* and only if test_interval > 0, i is a multiple of test_interval, and
\* i > 0 or test_initialization is set.
C4_TestCadence ==
  pc = "train" =>
    LET evs == SelectSeq(trace, LAMBDA e :
                 e.it = iter_
                   /\ e.ev \in {"TestAll", "Test", "ForwardBackward",
                                "ComputeUpdateValue", "Update"})
        due == /\ param.test_interval > 0
               /\ iter_ % param.test_interval = 0
               /\ (iter_ > 0 \/ param.test_initialization)
    IN  Shape(evs) = IF due THEN TestAllShape(NumTestNets(param)) ELSE <<>>

C4_Witness ==
  /\ pc = "train"
  /\ iter_ > 0
  /\ param.test_interval > 0
  /\ iter_ % param.test_interval = 0
  /\ NumTestNets(param) = 2
  /\ EventsAt("Test", iter_) # {}

\* the events of trace after the last pass of the loop
AfterLoop ==
  LET ups == {j \in DOMAIN trace : trace[j].ev = "Update"}
      last == IF ups = {} THEN 0
              ELSE CHOOSE j \in ups : \A k \in ups : k <= j
  IN  SubSeq(trace, last + 1, Len(trace))

\* C5: after the loop Solve emits exactly one final checkpoint if and only
\* if snapshot_after_train is set, whatever the snapshot cadence and the
\* number of passes, and then runs one final TestAll if and only if
\* test_interval > 0 and the final iteration is a multiple of it.
C5_FinalSteps ==
  pc = "done" =>
    LET evs == SelectSeq(AfterLoop, LAMBDA e :
                 e.ev \in {"Snapshot", "FinalSnapshot", "TestAll", "Test"})
        snap == IF param.snapshot_after_train
                THEN <<<<"FinalSnapshot", 0>>>> ELSE <<>>
        test == IF param.test_interval > 0
                     /\ iter_ % param.test_interval = 0
                THEN TestAllShape(NumTestNets(param)) ELSE <<>>
    IN  /\ Shape(evs) = snap \o test
        /\ \A j \in 1..Len(evs) : evs[j].it = iter_
        /\ \A j \in DOMAIN trace :
             trace[j].ev = "FinalSnapshot" => j > Len(trace) - Len(AfterLoop)

C5_Witness ==
  /\ pc = "done"
  /\ param.snapshot_after_train
  /\ param.snapshot = 0
  /\ param.test_interval > 0
  /\ iter_ % param.test_interval = 0
  /\ NumTestNets(param) = 2
  /\ NumUpdates > 0
  /\ EventsAt("FinalSnapshot", iter_) # {}
  /\ StateFileName(iter_) \in DOMAIN state_files

\* C8: an evaluation is read-only: whatever TestAll / Test calls a step of
\* Solve makes, the training net's weights, the history blobs and the
\* iteration counter are the same after the step as before it.
C8_TestReadOnly ==
  [][(pc = "test" \/ pc = "final") =>
       (net_data' = net_data /\ history_' = history_ /\ iter_' = iter_)
    ]_vars

C8_Witness ==
  /\ pc = "train"
  /\ iter_ > 0
  /\ EventsAt("Test", iter_) # {}
  /\ \A i \in DOMAIN test_data : test_data[i] = net_data
  /\ net_data # TestInitData(param)
  /\ net_data # param.init_data

Min(a, b) == IF a <= b THEN a ELSE b

RECURSIVE QSum(_)
QSum(xs) == IF xs = <<>> THEN Q(0) ELSE QAdd(Head(xs), QSum(Tail(xs)))

\* the arithmetic mean of the last m entries of xs (m > 0)
MeanOfLast(xs, m) ==
  QDiv(QSum(SubSeq(xs, Len(xs) - m + 1, Len(xs))), Q(m))

\* C6: after the n-th pass of a Solve call (fresh or resumed) with window
\* W >= 1 the smoothed loss is the arithmetic mean of the last min(n, W)
\* raw losses of the call; the losses buffer holds min(n, W) entries, never
\* more than W, and they are exactly the last min(n, W) raw losses -- the
\* slot (iter - start_iter) mod W that a pass overwrites held the oldest.
C6_SmoothedLoss ==
  InSolve =>
    LET n == Len(raw)
        W == param.average_loss
        m == Min(n, W)
    IN  /\ Len(losses) = m
        /\ Len(losses) <= W
        /\ n = iter_ - start_iter + (IF pc \in {"compute", "update"} THEN 1 ELSE 0)
        /\ n > 0 => smoothed_loss = MeanOfLast(raw, m)
        /\ \A j \in (n - m + 1)..n : losses[((j - 1) % W) + 1] = raw[j]

C6_Witness ==
  /\ pc = "compute"
  /\ restored # NoFile
  /\ start_iter > 0
  /\ param.average_loss = 2
  /\ Len(raw) = 3
  /\ raw[1] # raw[2]
  /\ raw[2] # raw[3]
  /\ raw[1] # raw[3]
  /\ smoothed_loss = QDiv(QAdd(raw[2], raw[3]), Q(2))

\* the net operations of one training step with k forward+backward passes
RECURSIVE AccumShape(_)
AccumShape(n) ==
  IF n <= 0 THEN <<>>
  ELSE <<<<"ForwardBackward", 0>>, <<"AccumulateDiff", 0>>>> \o AccumShape(n - 1)

StepShape(c) ==
  IF c.has_update_interval /\ c.update_interval > 1
  THEN AccumShape(c.update_interval - 1)
         \o <<<<"ForwardBackward", 0>>, <<"UpdateDiff", 0>>>>
  ELSE <<<<"ForwardBackward", 0>>>>

\* the training and update operations recorded for the pass at iteration i
StepEvents(i) ==
  Shape(SelectSeq(trace, LAMBDA e :
          e.it = i /\ e.ev \in {"ForwardBackward", "AccumulateDiff",
                                "UpdateDiff", "ComputeUpdateValue", "Update"}))

\* C7: with update_interval = k > 1 a pass makes exactly k forward+backward
\* passes, the first k-1 each followed by AccumulateDiff and no update, the
\* last by UpdateDiff, and the loss given to the window is the sum of the k
\* losses divided by k; with update_interval absent or 1 a pass makes one
\* forward+backward pass and neither AccumulateDiff nor UpdateDiff.  Either
\* way a pass has exactly one ComputeUpdateValue and one net Update, after
\* the training step.
C7_Accumulation ==
  InSolve =>
    LET k == IF param.has_update_interval THEN param.update_interval ELSE 1
        done == <<<<"ComputeUpdateValue", 0>>, <<"Update", 0>>>>
    IN  /\ \A i \in start_iter..(iter_ - 1) :
             StepEvents(i) = StepShape(param) \o done
        /\ StepEvents(iter_) =
             CASE pc = "compute" -> StepShape(param)
               [] pc = "update" -> StepShape(param) \o SubSeq(done, 1, 1)
               [] OTHER -> <<>>
        /\ Len(fed) = Len(raw)
        /\ \A j \in DOMAIN raw :
             /\ Len(fed[j]) = k
             /\ raw[j] = QDiv(QSum([b \in 1..k |-> BatchLoss(fed[j][b])]), Q(k))

C7_Witness ==
  /\ pc = "loop"
  /\ param.has_update_interval
  /\ param.update_interval = 2
  /\ iter_ = start_iter + 1
  /\ fed = <<<<1, 2>>>>
  /\ raw = <<Frac(3, 2)>>
  /\ Cardinality(EventsAt("ForwardBackward", start_iter)) = 2
  /\ Cardinality(EventsAt("AccumulateDiff", start_iter)) = 1
  /\ Cardinality(EventsAt("Update", start_iter)) = 1

\* the number of history blobs in the state file Solve resumed from
StoredHistory == Len(state_files[restored].history)

\* C9 as stated: Restore is fatal whenever the stored history count differs
\* from the number of learnable parameters of the training net.
C9_AsStated ==
  (restored # NoFile /\ StoredHistory # NumParams(param)) => pc = "fatal"

\* C9: for every update rule, Restore is fatal if the number of history
\* blobs stored in the state file differs from the number of history blobs
\* the rule of the current solver keeps -- one per learnable parameter, two
\* per learnable parameter for AdaDelta; no step of training follows.
C9_HistoryMismatch ==
  restored # NoFile =>
    LET expected == IF param.solver_type = "AdaDelta"
                    THEN 2 * NumParams(param) ELSE NumParams(param)
    IN  StoredHistory # expected => (pc = "fatal" /\ trace = <<>>)

C9_Witness ==
  /\ restored # NoFile
  /\ pc = "fatal"
  /\ param.solver_type = "AdaGrad"
  /\ taken[restored].solver_type = "AdaDelta"
  /\ StoredHistory = 2 * NumParams(param)
  /\ trace = <<>>

\* C10: for each of the five update rules and each parameter p, the rate
\* and the decay ComputeUpdateValue uses are
\* schedule(iter) * lr_multiplier[p] / update_interval and
\* weight_decay * decay_multiplier[p] * update_interval.
C10_EffectiveRate ==
  pc = "update" =>
    \A p \in 1..NumParams(param) :
      /\ used[p].rate =
           QDiv(QMul(GetLearningRate(param, iter_), param.params_lr[p]),
                Q(param.update_interval))
      /\ used[p].decay =
           QMul(QMul(param.weight_decay, param.params_weight_decay[p]),
                Q(param.update_interval))

\* a ComputeUpdateValue call of this Solve call has completed
SomeUpdateValue == \E j \in DOMAIN trace : trace[j].ev = "ComputeUpdateValue"

\* C11: for every update rule, with at least one parameter, a
\* regularization_type other than "L2" or "L1" ends the run in a fatal
\* error: no ComputeUpdateValue call completes under such a string.
C11_UnknownRegularization ==
  (NumParams(param) >= 1 /\ param.regularization_type \notin {"L2", "L1"})
    => ~SomeUpdateValue

\* the weights Solve started from
StartData == IF restored = NoFile THEN param.init_data ELSE taken[restored].data

UnknownPolicy == param.lr_policy \notin {"fixed", "step", "exp", "inv"}

\* C12: for every update rule an lr_policy outside {fixed, step, exp, inv}
\* is fatal at the first ComputeUpdateValue call: the call does not
\* complete, no rate is produced, and the weights are never updated.
C12_UnknownPolicy ==
  /\ [](UnknownPolicy =>
          /\ ~SomeUpdateValue
          /\ NumUpdates = 0
          /\ used = <<>>
          /\ (InSolve \/ pc = "fatal") => net_data = StartData)
  /\ [][(UnknownPolicy /\ pc = "compute") => pc' = "fatal"]_vars

C12_Witness ==
  /\ UnknownPolicy
  /\ pc = "fatal"
  /\ param.solver_type = "RMSProp"
  /\ Len(raw) = 1
  /\ iter_ = 0
  /\ EventsAt("ForwardBackward", iter_) # {}

\* the train-net source fields that are set
TrainSourcesSet ==
  {f \in {"net", "net_param", "train_net", "train_net_param"} :
     \/ f = "net" /\ param.has_net
     \/ f = "net_param" /\ param.has_net_param
     \/ f = "train_net" /\ param.has_train_net
     \/ f = "train_net_param" /\ param.has_train_net_param}

\* C13: construction builds the training net if and only if exactly one of
\* net, net_param, train_net, train_net_param is set; with none or with two
\* or more it is fatal before any net is constructed.
C13_TrainNetSource ==
  /\ net_built <=> Cardinality(TrainSourcesSet) = 1
  /\ Cardinality(TrainSourcesSet) # 1 =>
       /\ pc = "fatal"
       /\ ~init_done
       /\ test_nets_ = <<>>
       /\ trace = <<>>

C13_Witness ==
  /\ net_built
  /\ init_done
  /\ TrainSourcesSet = {"train_net_param"}
  /\ pc = "done"
  /\ NumUpdates = 1

\* the test nets built from the generic net (net / net_param)
GenericInstances ==
  {i \in DOMAIN test_nets_ : test_nets_[i] \in {"net", "net_param"}}

\* C14: InitTestNets accepts the configuration only if the number of
\* test_iter entries equals the number of declared test_net /
\* test_net_param nets when no generic net is set, or is at least that
\* number when one is set; then exactly (test_iter count - declared nets)
\* instances of the generic net are created, after the declared ones; any
\* other count is fatal and no test net is built.
C14_TestIterCount ==
  LET declared == param.test_net_param_size + param.test_net_size
      count == Len(param.test_iter)
      generic == param.has_net \/ param.has_net_param
      countOk == IF generic THEN count >= declared ELSE count = declared
  IN  /\ init_done => countOk
      /\ ~countOk => (pc = "fatal" /\ test_nets_ = <<>> /\ trace = <<>>)
      /\ init_done =>
           /\ Len(test_nets_) = count
           /\ Cardinality(GenericInstances) = count - declared
           /\ GenericInstances = (declared + 1)..count
           /\ ~generic => GenericInstances = {}

C14_Witness ==
  /\ init_done
  /\ param.has_net_param
  /\ param.test_net_param_size = 1
  /\ param.test_net_size = 1
  /\ test_nets_ = <<"test_net_param", "test_net", "net_param">>
  /\ pc = "done"

\* C15: a configuration whose average_loss is less than 1 is rejected at
\* initialization: construction never completes, no net is built and no
\* checkpoint is restored under it.
C15_WindowAtInit ==
  param.average_loss < 1 =>
    /\ ~init_done
    /\ ~net_built
    /\ restored = NoFile

\* C16: with the SGD rule, zero weight decay and the fixed policy, every
\* ComputeUpdateValue leaves, for every parameter, history =
\* rate * gradient + momentum * previous history (rate the per-parameter
\* effective rate, gradient the one the training step left), and the
\* gradient buffer handed to the update equals that history.
C16_Momentum ==
  [][(/\ pc = "compute"
      /\ pc' = "update"
      /\ param.solver_type = "SGD"
      /\ param.weight_decay = Q(0)
      /\ param.lr_policy = "fixed")
     => \A p \in 1..NumParams(param) :
          LET rate == QDiv(QMul(param.base_lr, param.params_lr[p]),
                           Q(param.update_interval))
          IN  /\ Len(history_'[p]) = Len(net_diff[p])
              /\ \A i \in 1..Len(net_diff[p]) :
                   history_'[p][i] =
                     QAdd(QMul(rate, net_diff[p][i]),
                          QMul(param.momentum, history_[p][i]))
              /\ net_diff'[p] = history_'[p]
    ]_vars

C16_Witness ==
  /\ pc = "update"
  /\ param.solver_type = "SGD"
  /\ param.weight_decay = Q(0)
  /\ param.lr_policy = "fixed"
  /\ param.update_interval = 2
  /\ iter_ = start_iter + 1
  /\ net_diff = history_
  /\ \A p \in 1..NumParams(param) : history_[p] # Zeros(1)

\* the rate of the step policy at iteration i
StepRate(i) == GetLearningRate(param, i)

\* C17: under the step policy the rate is base_lr at iteration 0, constant
\* over each block of stepsize iterations and multiplied by gamma from one
\* block to the next; with base_lr = 0.1, gamma = 0.5, stepsize = 2 it is
\* 0.1 at iterations 0-1, 0.05 at 2-3 and 0.025 at 4-5.  It is the rate
\* ComputeUpdateValue uses.
C17_StepPolicy ==
  (pc = "update" /\ param.lr_policy = "step") =>
    /\ used[1].rate = QMul(StepRate(iter_), param.params_lr[1])
    /\ StepRate(0) = param.base_lr
    /\ \A i \in 1..iter_ :
         StepRate(i) = IF i % param.stepsize = 0
                       THEN QMul(param.gamma, StepRate(i - 1))
                       ELSE StepRate(i - 1)
    /\ (/\ param.base_lr = Frac(1, 10)
        /\ param.gamma = Frac(1, 2)
        /\ param.stepsize = 2)
       => StepRate(iter_) =
            <<Frac(1, 10), Frac(1, 10), Frac(1, 20), Frac(1, 20),
              Frac(1, 40), Frac(1, 40)>>[iter_ + 1]

C17_Witness ==
  /\ pc = "update"
  /\ param.lr_policy = "step"
  /\ param.base_lr = Frac(1, 10)
  /\ param.gamma = Frac(1, 2)
  /\ param.stepsize = 2
  /\ iter_ = 5
  /\ used[1].rate = Frac(1, 40)

\* C18: the global phase matches the net being run: TRAIN at every
\* forward/backward pass of the training net inside Solve, also after an
\* evaluation, TEST at every forward pass of a test net, and TRAIN again
\* when a Test call has returned.
C18_Phase ==
  /\ \A j \in DOMAIN trace :
       /\ trace[j].ev = "ForwardBackward" => trace[j].phase = "TRAIN"
       /\ trace[j].ev = "Forward" => trace[j].phase = "TEST"
  /\ InSolve => phase = "TRAIN"

C18_Witness ==
  /\ pc = "compute"
  /\ phase = "TRAIN"
  /\ \E j \in DOMAIN trace : \E k \in DOMAIN trace :
       /\ j < k
       /\ trace[j].ev = "Forward" /\ trace[j].phase = "TEST"
       /\ trace[j].it = iter_
       /\ trace[k].ev = "ForwardBackward" /\ trace[k].phase = "TRAIN"
       /\ trace[k].it = iter_

\* C19: for every score Test reports, whatever the number of elements of
\* the outputs, the position used to look up the loss weight is a valid
\* position of the net's output list, it is the position of the output the
\* score belongs to (the blob whose name is printed), and the weight
\* reported is that blob's loss weight.
C19_LossWeight ==
  \A k \in DOMAIN report :
    LET r == report[k]
    IN  /\ r.position \in DOMAIN param.output_blob_indices
        /\ param.output_blob_indices[r.position] = r.name
        /\ r.weight = param.blob_loss_weights[r.name]

RECURSIVE Uninterrupted(_, _)
\* the weights and buffers of a solver of configuration c after n passes of
\* one Solve call started at iteration 0, every batch being batch 1
Uninterrupted(c, n) ==
  IF n = 0
  THEN [data |-> c.init_data, history |-> PreSolveHistory(c),
        update |-> ZeroBlobs(NumParams(c)), temp |-> ZeroBlobs(NumParams(c))]
  ELSE LET s == Uninterrupted(c, n - 1)
           np == NumParams(c)
           acc == SetAccumulate(c)
           diff == PassDiff(c, acc, ZeroBlobs(np),
                            [i \in 1..NumPasses(c, acc) |-> 1])
           off == UpdateHistoryOffset(c)
           two == c.solver_type = "AdaDelta"
           res == [p \in 1..np |->
                     RuleStep(c, n - 1, p,
                       [data |-> s.data[p], diff |-> diff[p],
                        h |-> s.history[p],
                        h2 |-> IF two THEN s.history[off + p] ELSE <<>>,
                        upd |-> s.update[p], tmp |-> s.temp[p]])]
       IN  [data |-> NetUpdateData(s.data, [p \in 1..np |-> res[p].diff]),
            history |-> [i \in 1..Len(s.history) |->
                           IF i <= np THEN res[i].h ELSE res[i - off].h2],
            update |-> [p \in 1..np |-> res[p].upd],
            temp |-> [p \in 1..np |-> res[p].tmp]]

\* C20: resuming is transparent: with a gradient that depends only on the
\* weights and the iteration, a run that snapshots at iteration N followed
\* by a fresh solver of the same rule resumed from that snapshot and run to
\* max_iter M >= N ends with the iteration counter, the weights and the
\* history blobs of one uninterrupted run from 0 to M.
C20_ResumeTransparent ==
  (pc = "done" /\ restored # NoFile /\ param.max_iter >= start_iter) =>
    /\ iter_ = param.max_iter
    /\ net_data = Uninterrupted(param, param.max_iter).data
    /\ history_ = Uninterrupted(param, param.max_iter).history

C20_Witness ==
  /\ pc = "done"
  /\ restored # NoFile
  /\ start_iter = 1
  /\ iter_ = 3
  /\ param.solver_type = "AdaDelta"
  /\ param.weight_decay # Q(0)
  /\ param.lr_policy = "step"
  /\ history_ # PreSolveHistory(param)
  /\ net_data # taken[restored].data

\* a written file is a solver-state file
IsStateFile(name) == name[Len(name)] = ".solverstate"

\* the files on disk after the first k writes: the last write of a name wins
FilesAfter(k) ==
  [n \in {written[i].name : i \in 1..k} |->
     written[CHOOSE i \in 1..k :
               /\ written[i].name = n
               /\ \A j \in (i + 1)..k : written[j].name # n].content]

\* C21: at every point of a run (after every single file write, so also
\* between the two writes of one Snapshot call) a solver-state file is on
\* disk only together with the model file it names, its name is that model
\* file's name plus the suffix, and the iteration it stores is the N of both
\* names; the files the solver ends up with are those of the write log.
C21_StateAfterModel ==
  /\ \A k \in 0..Len(written) :
       LET fs == FilesAfter(k)
       IN  \A f \in DOMAIN fs :
             IsStateFile(f) =>
               /\ fs[f].learned_net \in DOMAIN fs
               /\ fs[f].learned_net = ModelFileName(fs[f].iter)
               /\ f = StateFileName(fs[f].iter)
  /\ DOMAIN FilesAfter(Len(written)) = DOMAIN model_files \cup DOMAIN state_files
  /\ \A f \in DOMAIN state_files : FilesAfter(Len(written))[f] = state_files[f]
  /\ \A f \in DOMAIN model_files : FilesAfter(Len(written))[f] = model_files[f]

\* a rerun has written a checkpoint pair over the pair of the first run, and
\* pairs of two different iterations are on disk
C21_Witness ==
  /\ runs = 2
  /\ Cardinality(DOMAIN state_files) >= 2
  /\ \E i, j \in 1..Len(written) :
       /\ i < j
       /\ written[i].name = written[j].name
       /\ IsStateFile(written[i].name)
       /\ written[j].content.iter > 0

\* C22: once construction has succeeded, test_nets_ has one instance per
\* test_iter entry, every instance was given a network definition by one of
\* the four sources, and every Test call made by TestAll uses an index that
\* is within both test_nets_ and test_iter.
C22_TestNetsInBounds ==
  init_done =>
    /\ NumTestNetInstances(param) = Len(param.test_iter)
    /\ Len(test_nets_) = Len(param.test_iter)
    /\ \A i \in DOMAIN test_nets_ :
         test_nets_[i] \in {"test_net_param", "test_net", "net_param", "net"}
    /\ Len(test_data) = Len(test_nets_)
    /\ \A k \in DOMAIN trace :
         trace[k].ev = "Test" =>
           /\ trace[k].id \in DOMAIN test_nets_
           /\ trace[k].id \in DOMAIN param.test_iter

\* three instances, two of them from the generic net file, have been tested
C22_Witness ==
  /\ init_done
  /\ pc = "done"
  /\ param.has_net
  /\ test_nets_ = <<"test_net", "net", "net">>
  /\ \E k \in DOMAIN trace : trace[k].ev = "Test" /\ trace[k].id = 3

\* the place of an operation within a loop pass
PassRank(e) ==
  CASE e \in {"Snapshot", "FinalSnapshot"} -> 1
    [] e \in {"TestAll", "Test", "Forward"} -> 2
    [] e \in {"ForwardBackward", "AccumulateDiff", "UpdateDiff"} -> 3
    [] e = "ComputeUpdateValue" -> 4
    [] OTHER -> 5

\* the updates of this Solve call that precede position j of trace
UpdatesBefore(j) == {k \in 1..(j - 1) : trace[k].ev = "Update"}

\* the counter and the order of the operations, in every state of a call
PassOrder ==
  InSolve =>
    /\ (pc = "loop" \/ pc = "final" \/ pc = "done") =>
         NumUpdates = iter_ - start_iter
    /\ \A j, k \in DOMAIN trace :
         j < k =>
           \/ trace[j].it < trace[k].it
           \/ /\ trace[j].it = trace[k].it
              /\ PassRank(trace[j].ev) <= PassRank(trace[k].ev)
    /\ \A j \in DOMAIN trace :
         PassRank(trace[j].ev) = 1 =>
           /\ Cardinality(UpdatesBefore(j)) = trace[j].it - start_iter
           /\ \A k \in UpdatesBefore(j) : trace[k].it < trace[j].it

\* what a step may change: a checkpoint stores the weights and history of
\* the moment under the current iteration, the weights change only in Update
\* and the history only in ComputeUpdateValue
PassStep ==
  /\ (written' # written) =>
       LET st == written'[Len(written')]
           md == written'[Len(written') - 1]
       IN  /\ Len(written') = Len(written) + 2
           /\ st.content.iter - start_iter = NumUpdates
           /\ st.name = StateFileName(st.content.iter)
           /\ md.name = ModelFileName(st.content.iter)
           /\ CopyTrainedLayersFrom(md.content) = net_data
           /\ st.content.history = SnapshotSolverState(history_)
  /\ (pc = "loop" \/ pc = "test" \/ pc = "train" \/ pc = "compute"
        \/ pc = "final") => (net_data' = net_data)
  /\ (pc = "loop" \/ pc = "test" \/ pc = "train" \/ pc = "update"
        \/ pc = "final") => (history_' = history_)

\* C23: at the head of every pass and at loop exit the number of updates
\* applied since Solve began is iter_ - start_iter; within a pass the order
\* is snapshot, evaluation, forward/backward, ComputeUpdateValue, Update; a
\* checkpoint labelled N stores the weights and history left by the updates
\* of iterations start_iter..N-1, never those of iteration N; nothing after
\* the final checkpoint changes the weights.
C23_UpdateOrder == [](PassOrder) /\ [][PassStep]_vars

\* a resumed call has snapshotted in the loop, updated, written the final
\* checkpoint and run the final evaluation
C23_Witness ==
  /\ pc = "done"
  /\ restored # NoFile
  /\ start_iter > 0
  /\ NumUpdates >= 2
  /\ net_data # taken[restored].data
  /\ \E j, k, l \in DOMAIN trace :
       /\ j < k /\ k < l
       /\ trace[j].ev = "Snapshot"
       /\ trace[k].ev = "FinalSnapshot"
       /\ trace[l].ev = "TestAll"

\* positions of trace at which a test net is run at iteration 0
TestsAtZero == {j \in DOMAIN trace : trace[j].ev = "Test" /\ trace[j].it = 0}

\* C24 as stated: in every Solve call, whatever max_iter is, a test net is
\* run at iteration 0 only if test_initialization is set.
C24_AsStated == TestsAtZero # {} => param.test_initialization

\* C24 amended: a test net is run at iteration 0 only if test_initialization
\* is set or the loop has exited at iteration 0 (max_iter = 0); the
\* evaluation after the loop does not consult the flag, so a call that ends
\* at iteration 0 with a non-zero test_interval has run every test net at
\* iteration 0.
C24_TestAtZero ==
  /\ TestsAtZero # {} =>
       \/ param.test_initialization
       \/ /\ param.max_iter = 0
          /\ iter_ = 0
          /\ pc = "done"
  /\ (pc = "done" /\ iter_ = 0 /\ param.test_interval # 0) =>
       \A id \in 1..NumTestNets(param) :
         \E j \in TestsAtZero : trace[j].id = id

\* a call with max_iter = 0 and test_initialization unset has run both of
\* its test nets at iteration 0
C24_Witness ==
  /\ pc = "done"
  /\ iter_ = 0
  /\ param.max_iter = 0
  /\ ~param.test_initialization
  /\ NumTestNets(param) = 2
  /\ \A id \in 1..2 : \E j \in TestsAtZero : trace[j].id = id

=============================================================================
